---- MODULE Spec2Model ----
(***************************************************************************)
(* Model of telegram-cf-bot: the authorization roster (config.Config), the *)
(* pending-upload store (Bot.pendingUploads guarded by Bot.uploadMutex),   *)
(* the update handlers registered in Bot.Start, the upload pipeline       *)
(* processImageUpload, and the startup and shutdown of main and Bot.Stop.  *)
(*                                                                         *)
(* telebot runs every handler in its own goroutine, so the handlers are    *)
(* modelled as concurrent tasks.  A task's pc names the statement the task *)
(* is executing; the step that leaves the pc carries the statement's       *)
(* effect.  Each step makes at most one access to shared state (roster,    *)
(* config file, pending store, mutex); statements that touch only the      *)
(* handler's locals are folded into the neighbouring step.                 *)
(***************************************************************************)
EXTENDS Integers, Sequences, FiniteSets, TLC

\* ---------------------------------------------------------------- bounds
MaxRoster == 2       \* longest roster the admin is allowed to build
MaxFiles == 2        \* photo/document messages received in one run
MaxUpdates == 3      \* updates of any kind received in one run

\* ------------------------------------------------------- program values
AdminID == 1
Users == {1, 2, 3}
\* two handler goroutines run at a time: the fewest that can interleave
Tasks == {1, 2}
NoFile == 0

\* rosters a configuration file can hold: empty, one user, the admin
\* listed explicitly, the same user listed twice
InitRosters == {<<>>, <<2>>, <<1, 2>>, <<2, 2>>}

\* The text of an /auth or /unauth message as handleUserCommand reads it:
\* the number of fields strings.Fields finds, whether ParseInt accepts the
\* second one, and the id it then returns.
NoText == [fields |-> 0, numeric |-> FALSE, id |-> 0]
CommandTexts ==
    {[fields |-> 2, numeric |-> TRUE, id |-> u] : u \in Users}
      \cup {[fields |-> 1, numeric |-> FALSE, id |-> 0],
            [fields |-> 2, numeric |-> FALSE, id |-> 0],
            [fields |-> 3, numeric |-> TRUE, id |-> 2]}


\* a declared content type as the sequence of its parts
MimeTypes == {<<"image", "/", "png">>, <<"application", "/", "pdf">>, <<"image">>}
ImagePrefix == <<"image", "/">>

\* The configuration file as main finds it at startup: whether
\* findConfigFile finds it, os.ReadFile reads it and yaml.Unmarshal parses
\* it, and the three required strings ("" when the key is absent or empty).
ConfigFiles ==
    [found : BOOLEAN, readable : BOOLEAN, parses : BOOLEAN,
     botToken : {"", "token"}, accountID : {"", "account"},
     apiToken : {"", "token"}]
ValidConfigFile ==
    [found |-> TRUE, readable |-> TRUE, parses |-> TRUE,
     botToken |-> "token", accountID |-> "account", apiToken |-> "token"]

VARIABLES
    AuthorizedUsers,   \* Config.AuthorizedUsers, a slice of ids
    persisted,         \* authorized_users as stored in the config file
    pendingUploads,    \* Bot.pendingUploads: user -> file id, NoFile if absent
    uploadMutex,       \* Bot.uploadMutex: [writer |-> task or 0, readers |-> set]
    task,              \* one record per handler goroutine
    nFiles,            \* file ids handed out so far (each message has its own)
    nUpdates,          \* updates received so far
    overwritten,       \* history: <<user, file>> pairs replaced by a later photo
    crashed,           \* an unrecovered panic ended the process
    process,           \* main: "starting" until it serves, "aborted" by
                       \* logger.Fatal, "running", "stopping" once the
                       \* signal came and Bot.Stop runs, "exited" once
                       \* main returned
    configFile         \* the configuration file as config.Load finds it

vars == <<AuthorizedUsers, persisted, pendingUploads, uploadMutex, task,
          nFiles, nUpdates, overwritten, crashed, process, configFile>>

Range(s) == {s[i] : i \in 1..Len(s)}

HasPrefixFirstPart(str, prefix) == Len(str) >= 1 /\ str[1] = prefix[1]

\* strings.HasPrefix
HasPrefix(str, prefix) ==
    Len(str) >= Len(prefix) /\ SubSeq(str, 1, Len(prefix)) = prefix

\* ------------------------------------------------------------- the roster

RECURSIVE InList(_, _, _)
\* for _, id := range users { if id == userID { return true } }; return false
InList(users, userID, i) ==
    IF i > Len(users) THEN FALSE
    ELSE IF users[i] = userID THEN TRUE
    ELSE InList(users, userID, i + 1)

IsAuthorizedOpenWhenEmpty(userID) ==
    \/ userID = AdminID
    \/ Len(AuthorizedUsers) = 0
    \/ InList(AuthorizedUsers, userID, 1)

IsAuthorizedListOnly(userID) == InList(AuthorizedUsers, userID, 1)

IsAuthorized(userID) ==
    IF userID = AdminID THEN TRUE
    ELSE InList(AuthorizedUsers, userID, 1)

IsAdmin(userID) == userID = AdminID

RECURSIVE IndexOf(_, _, _)
\* the index at which RemoveAuthorizedUser's loop stops, 0 if it runs out
IndexOf(users, userID, i) ==
    IF i > Len(users) THEN 0
    ELSE IF users[i] = userID THEN i
    ELSE IndexOf(users, userID, i + 1)

\* append(s[:i], s[i+1:]...) with the 1-based index i
RemoveAt(s, i) == SubSeq(s, 1, i - 1) \o SubSeq(s, i + 1, Len(s))

\* ------------------------------------------------------ the pending store

StashKeepFirst(store, userID, fileID) ==
    IF store[userID] # NoFile THEN store ELSE [store EXCEPT ![userID] = fileID]

Stash(store, userID, fileID) == [store EXCEPT ![userID] = fileID]
DropKeeps(store, userID) == store

DropAll(store, userID) == [u \in Users |-> NoFile]

Drop(store, userID) == [store EXCEPT ![userID] = NoFile]

MutexFree == uploadMutex.writer = 0 /\ uploadMutex.readers = {}
Lock(t) == [uploadMutex EXCEPT !.writer = t]
Unlock == [uploadMutex EXCEPT !.writer = 0]
RLock(t) == [uploadMutex EXCEPT !.readers = @ \cup {t}]
RUnlock(t) == [uploadMutex EXCEPT !.readers = @ \ {t}]

\* ------------------------------------------------------------- validator
\* A payload is described by what Validate reads from it: its length, whether
\* image.DecodeConfig parses it, and the format and dimensions it then returns.

MaxImageDimension == 12000
MaxImageArea == 100000000
MaxAnimatedArea == 50000000
MaxFileSizeBytes == 10485760

MaxMetadataSizeBytes == 1024

\* What exif.Decode finds in a payload: for each of the three tags read, the
\* number of characters json.Marshal writes for its string value (quotes
\* included), 0 when the tag is absent.
NoExif == [make |-> 0, model |-> 0, dateTime |-> 0]

NoImage ==
    [size |-> 0, decodes |-> FALSE, format |-> "", width |-> 0, height |-> 0,
     exif |-> NoExif]

ValidateDecodeFirst(img) ==
    IF ~img.decodes THEN "ErrInvalidImage"
    ELSE IF img.size > MaxFileSizeBytes THEN "ErrImageTooLarge"
    ELSE IF img.width > MaxImageDimension \/ img.height > MaxImageDimension
         THEN "ErrImageTooBig"
    ELSE IF img.width * img.height >
              (IF img.format = "gif" THEN MaxAnimatedArea ELSE MaxImageArea)
         THEN "ErrImageTooBig"
    ELSE ""

ValidateStaticCeiling(img) ==
    IF img.size > MaxFileSizeBytes THEN "ErrImageTooLarge"
    ELSE IF ~img.decodes THEN "ErrInvalidImage"
    ELSE IF img.width > MaxImageDimension \/ img.height > MaxImageDimension
         THEN "ErrImageTooBig"
    ELSE IF img.width * img.height > MaxImageArea THEN "ErrImageTooBig"
    ELSE ""

ValidateStrict(img) ==
    IF img.size >= MaxFileSizeBytes THEN "ErrImageTooLarge"
    ELSE IF ~img.decodes THEN "ErrInvalidImage"
    ELSE IF img.width >= MaxImageDimension \/ img.height >= MaxImageDimension
         THEN "ErrImageTooBig"
    ELSE IF img.width * img.height >=
              (IF img.format = "gif" THEN MaxAnimatedArea ELSE MaxImageArea)
         THEN "ErrImageTooBig"
    ELSE ""

\* the first failing gate of Validate, "" when the payload passes them all
Validate(img) ==
    IF img.size > MaxFileSizeBytes THEN "ErrImageTooLarge"
    ELSE IF ~img.decodes THEN "ErrInvalidImage"
    ELSE IF img.width > MaxImageDimension \/ img.height > MaxImageDimension
         THEN "ErrImageTooBig"
    ELSE IF img.width * img.height >
              (IF img.format = "gif" THEN MaxAnimatedArea ELSE MaxImageArea)
         THEN "ErrImageTooBig"
    ELSE ""

\* the payloads the file server hands back in the handler runs
Images ==
    {[size |-> 204800, decodes |-> TRUE, format |-> "jpeg",
      width |-> 1600, height |-> 1200, exif |-> NoExif],
     [size |-> 5242880, decodes |-> TRUE, format |-> "jpeg",
      width |-> 15000, height |-> 8000, exif |-> NoExif]}

\* Payloads around every gate of Validate: lengths at, below and above the
\* byte limit; dimensions at and above the side limit and both area
\* ceilings; the three formats image.DecodeConfig knows here; EXIF strings
\* that leave the serialized metadata below, at and above 1024 characters.
PayloadSizes == {204800, 10485760, 10485761}
PayloadDimensions ==
    {<<1600, 1200>>, <<12000, 8333>>, <<10000, 10000>>, <<10001, 10000>>,
     <<12001, 1>>, <<1, 12001>>, <<12000, 12000>>, <<10000, 5000>>,
     <<10000, 5001>>}
PayloadFormats == {"jpeg", "png", "gif"}
PayloadExifs ==
    {NoExif,
     [make |-> 8, model |-> 10, dateTime |-> 21],
     [make |-> 992, model |-> 0, dateTime |-> 0],
     [make |-> 993, model |-> 0, dateTime |-> 0],
     [make |-> 3000, model |-> 0, dateTime |-> 21]}
Payloads ==
    {[size |-> n, decodes |-> TRUE, format |-> f, width |-> d[1],
      height |-> d[2], exif |-> e] :
        n \in PayloadSizes, f \in PayloadFormats, d \in PayloadDimensions,
        e \in PayloadExifs}
      \cup {[NoImage EXCEPT !.size = n] : n \in PayloadSizes}

\* the gates Validate evaluates, in the order it evaluates them, up to and
\* including the first that fails
GatesTried(img) ==
    IF img.size > MaxFileSizeBytes THEN <<"size">>
    ELSE IF ~img.decodes THEN <<"size", "decode">>
    ELSE IF img.width > MaxImageDimension \/ img.height > MaxImageDimension
         THEN <<"size", "decode", "dimension">>
    ELSE <<"size", "decode", "dimension", "area">>

\* A metadata mapping is a function from its keys to the number of
\* characters json.Marshal writes for each value.
NoMetadata == [k \in {} |-> 0]

RECURSIVE Digits(_)
\* the characters of a non-negative int in decimal
Digits(n) == IF n < 10 THEN 1 ELSE 1 + Digits(n \div 10)

RECURSIVE EntryChars(_, _)
EntryChars(m, keys) ==
    IF keys = {} THEN 0
    ELSE LET k == CHOOSE k \in keys : TRUE
         IN Len(k) + 3 + m[k] + EntryChars(m, keys \ {k})

\* len(json.Marshal(m)): braces, "key":value entries, commas between them
JSONLen(m) ==
    IF DOMAIN m = {} THEN 2
    ELSE 2 + EntryChars(m, DOMAIN m) + Cardinality(DOMAIN m) - 1

extractMetadataAnyFormat(img) ==
    LET tags == (IF img.exif.make # 0 THEN {"camera_make"} ELSE {})
                  \cup (IF img.exif.model # 0 THEN {"camera_model"} ELSE {})
                  \cup (IF img.exif.dateTime # 0 THEN {"date_time"} ELSE {})
    IN [k \in {"format"} \cup tags |->
           CASE k = "format" -> Len(img.format) + 2
             [] k = "camera_make" -> img.exif.make
             [] k = "camera_model" -> img.exif.model
             [] OTHER -> img.exif.dateTime]

extractMetadata(img) ==
    LET tags == IF img.format # "jpeg" THEN {}
                ELSE (IF img.exif.make # 0 THEN {"camera_make"} ELSE {})
                       \cup (IF img.exif.model # 0 THEN {"camera_model"} ELSE {})
                       \cup (IF img.exif.dateTime # 0 THEN {"date_time"} ELSE {})
    IN [k \in {"format"} \cup tags |->
           CASE k = "format" -> Len(img.format) + 2
             [] k = "camera_make" -> img.exif.make
             [] k = "camera_model" -> img.exif.model
             [] OTHER -> img.exif.dateTime]

\* the mapping Validate falls back to
SimplifiedMetadata(img) ==
    [k \in {"format", "width", "height", "size"} |->
        CASE k = "format" -> Len(img.format) + 2
          [] k = "width" -> Digits(img.width)
          [] k = "height" -> Digits(img.height)
          [] OTHER -> Digits(img.size)]

ResultMetadataUncapped(img) == extractMetadata(img)

\* the metadata of Validate's Result
ResultMetadata(img) ==
    IF JSONLen(extractMetadata(img)) > MaxMetadataSizeBytes
    THEN SimplifiedMetadata(img)
    ELSE extractMetadata(img)

NoResult ==
    [IsValid |-> FALSE, Format |-> "", Width |-> 0, Height |-> 0, Size |-> 0,
     Metadata |-> NoMetadata]

\* the *Result Validate returns: nil (NoResult) with an error
ValidateResult(img) ==
    IF Validate(img) # "" THEN NoResult
    ELSE [IsValid |-> TRUE, Format |-> img.format, Width |-> img.width,
          Height |-> img.height, Size |-> img.size,
          Metadata |-> ResultMetadata(img)]

\* ---------------------------------------------------- remote upload client
\* What Client.Upload gets back: a transport failure, or a parsed
\* UploadResponse with its success flag, error messages and variant list.

UploadReplies ==
    {[transport |-> FALSE, success |-> TRUE, errors |-> <<>>,
      variants |-> <<"url_public", "url_thumb">>],
     [transport |-> FALSE, success |-> TRUE, errors |-> <<>>, variants |-> <<>>],
     [transport |-> FALSE, success |-> FALSE, errors |-> <<"bad token">>,
      variants |-> <<"url_stale">>],
     [transport |-> TRUE, success |-> FALSE, errors |-> <<>>, variants |-> <<>>]}

\* no call of Client.Upload has returned yet
NoReply ==
    [transport |-> FALSE, success |-> FALSE, errors |-> <<>>, variants |-> <<>>]

AllowedMetadata ==
    {"width", "height", "format", "file_size", "camera_make", "camera_model"}

filterMetadataAll(metadata) == metadata

filterMetadata(metadata) ==
    [k \in DOMAIN metadata \cap AllowedMetadata |-> metadata[k]]

MetadataFitsAlways(filtered) == TRUE

MetadataFits(filtered) == JSONLen(filtered) < MaxMetadataSizeBytes

\* the form fields buildMultipartBody writes besides the file
NoRequest == [built |-> FALSE, hasMetadata |-> FALSE, metadata |-> NoMetadata]

buildMultipartBody(metadata) ==
    LET filtered == filterMetadata(metadata)
    IN IF DOMAIN filtered # {} /\ MetadataFits(filtered)
       THEN [built |-> TRUE, hasMetadata |-> TRUE, metadata |-> filtered]
       ELSE [built |-> TRUE, hasMetadata |-> FALSE, metadata |-> NoMetadata]

\* Client.Upload: the error it returns, <<>> when it returns the response
Upload(reply) ==
    IF reply.transport THEN <<"ErrUploadFailed">>
    ELSE IF ~reply.success THEN <<"ErrCloudflareAPI">> \o reply.errors
    ELSE <<>>

GetImageURLLast(reply) ==
    IF ~reply.success THEN <<"invalid response", "">>
    ELSE IF Len(reply.variants) = 0 THEN <<"no image variants in response", "">>
    ELSE <<"", reply.variants[Len(reply.variants)]>>

\* GetImageURL: <<error, url>>
GetImageURL(reply) ==
    IF ~reply.success THEN <<"invalid response", "">>
    ELSE IF Len(reply.variants) = 0 THEN <<"no image variants in response", "">>
    ELSE <<"", reply.variants[1]>>

\* ------------------------------------------------------------------ tasks

IdleTask ==
    [kind |-> "none", pc |-> "idle", user |-> 0, fileID |-> NoFile,
     mime |-> <<>>, text |-> NoText, idx |-> 0, data |-> <<>>,
     before |-> <<>>, after |-> <<>>,
     gates |-> <<>>, result |-> NoResult, request |-> NoRequest,
     reply |-> NoReply,
     authAtEvent |-> FALSE, resp |-> <<>>, stage |-> "None",
     msg |-> FALSE, edits |-> <<>>, image |-> NoImage, failedAt |-> "",
     downloads |-> 0, uploads |-> 0]

Free(t) == task[t].pc \in {"idle", "done"}

\* goroutines run while the process lives: until a panic or main's return
Alive == ~crashed /\ process \notin {"aborted", "exited"}

InitWith(rosters) ==
    /\ AuthorizedUsers \in rosters
    /\ persisted = AuthorizedUsers
    /\ pendingUploads = [u \in Users |-> NoFile]
    /\ uploadMutex = [writer |-> 0, readers |-> {}]
    /\ task = [t \in Tasks |-> IdleTask]
    /\ nFiles = 0
    /\ nUpdates = 0
    /\ overwritten = {}
    /\ crashed = FALSE
    /\ process = "running"
    /\ configFile = ValidConfigFile

\* telebot starts the handler of an incoming update in a goroutine of its
\* own; the handler's first statement runs as the update is taken up.  The
\* goroutines are interchangeable: a new one takes the lowest free slot.
Begin(t) ==
    /\ Alive /\ process = "running"
    /\ Free(t)
    /\ \A s \in 1..(t - 1) : ~Free(s)
    /\ nUpdates < MaxUpdates
    /\ nUpdates' = nUpdates + 1

Started(kind, pc, userID) ==
    [IdleTask EXCEPT !.kind = kind, !.pc = pc, !.user = userID]

\* a handler returns: what it told the user is kept until the slot is reused
Finished(r, resp, stage) ==
    [IdleTask EXCEPT !.kind = r.kind, !.pc = "done", !.user = r.user,
                     !.fileID = r.fileID, !.mime = r.mime, !.text = r.text,
                     !.resp = resp,
                     !.stage = stage, !.authAtEvent = r.authAtEvent]

\* ------------------------------------------------------------ handleStart

handleStart(t, userID) ==
    /\ Begin(t)
    /\ task' = [task EXCEPT ![t] =
           IF ~IsAuthorized(userID)
           THEN Finished(Started("start", "", userID), <<"Unauthorized">>, "None")
           ELSE Finished(Started("start", "", userID), <<"Welcome">>, "None")]
    /\ UNCHANGED <<AuthorizedUsers, persisted, pendingUploads, uploadMutex,
                   nFiles, overwritten, crashed, process, configFile>>

\* ------------------------------------------------------------ handlePhoto
\* telebot routes a message to OnPhoto only when it carries a photo, so the
\* photo == nil branch is never taken.

handlePhotoUnconfirmed(t, userID) ==
    /\ Begin(t)
    /\ nFiles < MaxFiles
    /\ nFiles' = nFiles + 1
    /\ LET r == [Started("photo", "downloading", userID)
                    EXCEPT !.fileID = nFiles + 1, !.stage = "Downloading"]
       IN task' = [task EXCEPT ![t] =
              IF ~IsAuthorized(userID)
              THEN Finished(r, <<"Unauthorized">>, "None")
              ELSE r]
    /\ UNCHANGED <<AuthorizedUsers, persisted, pendingUploads, uploadMutex,
                   overwritten, crashed, process, configFile>>

handlePhoto(t, userID) ==
    /\ Begin(t)
    /\ nFiles < MaxFiles
    /\ nFiles' = nFiles + 1
    /\ LET r == [Started("photo", "photo_lock", userID)
                    EXCEPT !.fileID = nFiles + 1, !.stage = "Received"]
       IN task' = [task EXCEPT ![t] =
              IF ~IsAuthorized(userID)
              THEN Finished(r, <<"Unauthorized">>, "None")
              ELSE r]
    /\ UNCHANGED <<AuthorizedUsers, persisted, pendingUploads, uploadMutex,
                   overwritten, crashed, process, configFile>>

\* b.uploadMutex.Lock()
PhotoLock(t) ==
    /\ Alive /\ task[t].pc = "photo_lock"
    /\ MutexFree
    /\ uploadMutex' = Lock(t)
    /\ task' = [task EXCEPT ![t].pc = "photo_store"]
    /\ UNCHANGED <<AuthorizedUsers, persisted, pendingUploads, nFiles,
                   nUpdates, overwritten, crashed, process, configFile>>

\* b.pendingUploads[userID] = photo.FileID; Unlock; send the confirm prompt
PhotoStore(t) ==
    /\ Alive /\ task[t].pc = "photo_store"
    /\ pendingUploads' = Stash(pendingUploads, task[t].user, task[t].fileID)
    /\ overwritten' =
           IF pendingUploads[task[t].user] # NoFile
           THEN overwritten \cup {<<task[t].user, pendingUploads[task[t].user]>>}
           ELSE overwritten
    /\ uploadMutex' = Unlock
    /\ task' = [task EXCEPT ![t] = Finished(task[t], <<"ConfirmPrompt">>, "Pending")]
    /\ UNCHANGED <<AuthorizedUsers, persisted, nFiles, nUpdates, crashed,
                   process, configFile>>

\* --------------------------------------------------------- handleDocument
\* as for photos, OnDocument is routed only with a document present

handleDocument(t, userID, mime) ==
    /\ Begin(t)
    /\ nFiles < MaxFiles
    /\ nFiles' = nFiles + 1
    /\ LET r == [Started("document", "downloading", userID)
                    EXCEPT !.fileID = nFiles + 1, !.stage = "Downloading",
                           !.authAtEvent = IsAuthorized(userID)]
           doc == [r EXCEPT !.mime = mime]
       IN task' = [task EXCEPT ![t] =
              IF ~IsAuthorized(userID)
              THEN Finished(r, <<"Unauthorized">>, "None")
              ELSE IF ~HasPrefix(doc.mime, ImagePrefix)
              THEN Finished(doc, <<"UnsupportedType">>, "None")
              ELSE doc]
    /\ UNCHANGED <<AuthorizedUsers, persisted, pendingUploads, uploadMutex,
                   overwritten, crashed, process, configFile>>

\* --------------------------------------------------------- handleCallback
\* c.Respond(), TrimSpace and the switch read nothing shared; the handler
\* never asks IsAuthorized.  authAtEvent records, for the properties only,
\* what IsAuthorized answers as the button press is taken up.

\* case "confirm_upload": b.uploadMutex.RLock()
CallbackConfirm(t, userID) ==
    /\ Begin(t)
    /\ uploadMutex.writer = 0
    /\ uploadMutex' = RLock(t)
    /\ task' = [task EXCEPT ![t] =
           [Started("confirm", "confirm_read", userID)
               EXCEPT !.authAtEvent = IsAuthorized(userID)]]
    /\ UNCHANGED <<AuthorizedUsers, persisted, pendingUploads, nFiles,
                   overwritten, crashed, process, configFile>>

ConfirmReadAlwaysProceeds(t) ==
    /\ Alive /\ task[t].pc = "confirm_read"
    /\ uploadMutex' = RUnlock(t)
    /\ task' = [task EXCEPT ![t] =
           [task[t] EXCEPT !.pc = "confirm_lock",
                           !.fileID = pendingUploads[task[t].user]]]
    /\ UNCHANGED <<AuthorizedUsers, persisted, pendingUploads, nFiles,
                   nUpdates, overwritten, crashed, process, configFile>>

\* fileID, exists := b.pendingUploads[userID]; RUnlock; if !exists { Edit }
ConfirmRead(t) ==
    /\ Alive /\ task[t].pc = "confirm_read"
    /\ uploadMutex' = RUnlock(t)
    /\ task' = [task EXCEPT ![t] =
           IF pendingUploads[task[t].user] = NoFile
           THEN Finished(task[t], <<"NoPendingUpload">>, "None")
           ELSE [task[t] EXCEPT !.pc = "confirm_lock",
                                !.fileID = pendingUploads[task[t].user]]]
    /\ UNCHANGED <<AuthorizedUsers, persisted, pendingUploads, nFiles,
                   nUpdates, overwritten, crashed, process, configFile>>

\* b.uploadMutex.Lock()
ConfirmLock(t) ==
    /\ Alive /\ task[t].pc = "confirm_lock"
    /\ MutexFree
    /\ uploadMutex' = Lock(t)
    /\ task' = [task EXCEPT ![t].pc = "confirm_delete"]
    /\ UNCHANGED <<AuthorizedUsers, persisted, pendingUploads, nFiles,
                   nUpdates, overwritten, crashed, process, configFile>>

\* delete(b.pendingUploads, userID); Unlock; c.Edit; processImageUpload
ConfirmDelete(t) ==
    /\ Alive /\ task[t].pc = "confirm_delete"
    /\ pendingUploads' = Drop(pendingUploads, task[t].user)
    /\ uploadMutex' = Unlock
    /\ task' = [task EXCEPT ![t] =
           [task[t] EXCEPT !.pc = "downloading", !.stage = "Downloading",
                           !.resp = <<"Processing">>]]
    /\ UNCHANGED <<AuthorizedUsers, persisted, nFiles, nUpdates, overwritten,
                   crashed, process, configFile>>

\* case "cancel_upload": b.uploadMutex.Lock()
CallbackCancel(t, userID) ==
    /\ Begin(t)
    /\ MutexFree
    /\ uploadMutex' = Lock(t)
    /\ task' = [task EXCEPT ![t] = Started("cancel", "cancel_delete", userID)]
    /\ UNCHANGED <<AuthorizedUsers, persisted, pendingUploads, nFiles,
                   overwritten, crashed, process, configFile>>

\* delete(b.pendingUploads, userID); Unlock; c.Edit
CancelDelete(t) ==
    /\ Alive /\ task[t].pc = "cancel_delete"
    /\ pendingUploads' = Drop(pendingUploads, task[t].user)
    /\ uploadMutex' = Unlock
    /\ task' = [task EXCEPT ![t] = Finished(task[t], <<"Cancelled">>, "Cancelled")]
    /\ UNCHANGED <<AuthorizedUsers, persisted, nFiles, nUpdates, overwritten,
                   crashed, process, configFile>>

\* default:
CallbackDefault(t, userID) ==
    /\ Begin(t)
    /\ task' = [task EXCEPT ![t] =
           Finished(Started("callback", "", userID), <<"UnknownAction">>, "None")]
    /\ UNCHANGED <<AuthorizedUsers, persisted, pendingUploads, uploadMutex,
                   nFiles, overwritten, crashed, process, configFile>>


\* ------------------------------------------------------ handleUserCommand
\* The gates of handleUserCommand (IsAdmin, the field count, ParseInt) read
\* only the message and the immutable AdminID; <<>> when the command passes.

CommandGateAnySender(userID, text) ==
    IF text.fields # 2 THEN <<"Usage">>
    ELSE IF ~text.numeric THEN <<"InvalidUserID">>
    ELSE <<>>

CommandGate(userID, text) ==
    IF ~IsAdmin(userID) THEN <<"AdminOnly">>
    ELSE IF text.fields # 2 THEN <<"Usage">>
    ELSE IF ~text.numeric THEN <<"InvalidUserID">>
    ELSE <<>>

\* An /auth that reaches the append is sent only while the roster and the
\* additions in flight leave room below MaxRoster.
RosterRoom ==
    Len(AuthorizedUsers) + Cardinality({t \in Tasks : task[t].pc = "add_append"})
      < MaxRoster

\* An AppError is its Type and its Message; <<>> stands for nil.
AlreadyAuthorized == <<"ErrUserAlreadyExists", "user is already authorized">>
CannotRemoveAdmin == <<"ErrInvalidConfig", "cannot remove admin user">>
NotFound == <<"ErrUserNotFound", "user is not in authorized list">>
SaveFailed == <<"ErrInvalidConfig", "failed to write config file">>

AddAuthorizedUserCheckListOnly(userID) ==
    IF InList(AuthorizedUsers, userID, 1) THEN AlreadyAuthorized ELSE <<>>

\* AddAuthorizedUser up to its check: the error it returns, nil to go on
AddAuthorizedUserCheck(userID) ==
    IF IsAuthorized(userID) THEN AlreadyAuthorized ELSE <<>>

RemoveAuthorizedUserCheckNoAdmin(userID) ==
    IF IndexOf(AuthorizedUsers, userID, 1) = 0 THEN NotFound ELSE <<>>

\* RemoveAuthorizedUser up to the end of its loop: the error it returns,
\* nil when the loop found userID
RemoveAuthorizedUserCheck(userID) ==
    IF userID = AdminID THEN CannotRemoveAdmin
    ELSE IF IndexOf(AuthorizedUsers, userID, 1) = 0 THEN NotFound
    ELSE <<>>

\* handleAuth -> handleUserCommand -> AddAuthorizedUser, up to its check
handleAuth(t, userID, text) ==
    /\ Begin(t)
    /\ (CommandGate(userID, text) = <<>> /\ AddAuthorizedUserCheck(text.id) = <<>>)
           => RosterRoom
    /\ LET r == [Started("auth", "add_append", userID)
                    EXCEPT !.text = text, !.before = AuthorizedUsers]
       IN task' = [task EXCEPT ![t] =
              IF CommandGate(userID, text) # <<>>
              THEN Finished(r, CommandGate(userID, text), "None")
              ELSE IF AddAuthorizedUserCheck(text.id) # <<>>
              THEN Finished(r, <<"OperationFailed">> \o AddAuthorizedUserCheck(text.id),
                            "None")
              ELSE r]
    /\ UNCHANGED <<AuthorizedUsers, persisted, pendingUploads, uploadMutex,
                   nFiles, overwritten, crashed, process, configFile>>

\* c.AuthorizedUsers = append(c.AuthorizedUsers, userID)
AddAppend(t) ==
    /\ Alive /\ task[t].pc = "add_append"
    /\ AuthorizedUsers' = Append(AuthorizedUsers, task[t].text.id)
    /\ task' = [task EXCEPT ![t] =
           [task[t] EXCEPT !.pc = "save_marshal", !.after = AuthorizedUsers']]
    /\ UNCHANGED <<persisted, pendingUploads, uploadMutex, nFiles, nUpdates,
                   overwritten, crashed, process, configFile>>

\* handleUnauth -> handleUserCommand -> RemoveAuthorizedUser, up to the end
\* of its search loop
handleUnauth(t, userID, text) ==
    /\ Begin(t)
    /\ LET r == [Started("unauth", "remove_at", userID)
                    EXCEPT !.text = text, !.before = AuthorizedUsers,
                           !.idx = IndexOf(AuthorizedUsers, text.id, 1)]
       IN task' = [task EXCEPT ![t] =
              IF CommandGate(userID, text) # <<>>
              THEN Finished(r, CommandGate(userID, text), "None")
              ELSE IF RemoveAuthorizedUserCheck(text.id) # <<>>
              THEN Finished(r, <<"OperationFailed">> \o RemoveAuthorizedUserCheck(text.id),
                            "None")
              ELSE r]
    /\ UNCHANGED <<AuthorizedUsers, persisted, pendingUploads, uploadMutex,
                   nFiles, overwritten, crashed, process, configFile>>

\* c.AuthorizedUsers = append(c.AuthorizedUsers[:i], c.AuthorizedUsers[i+1:]...)
\* with the i the loop stopped at; the slice expression panics when another
\* handler shortened the roster below i+1 in the meantime
RemoveAtIndex(t) ==
    /\ Alive /\ task[t].pc = "remove_at"
    /\ IF task[t].idx <= Len(AuthorizedUsers)
       THEN /\ AuthorizedUsers' = RemoveAt(AuthorizedUsers, task[t].idx)
            /\ task' = [task EXCEPT ![t] =
                   [task[t] EXCEPT !.pc = "save_marshal", !.after = AuthorizedUsers']]
            /\ UNCHANGED crashed
       ELSE /\ crashed' = TRUE
            /\ task' = [task EXCEPT ![t].pc = "panic"]
            /\ UNCHANGED AuthorizedUsers
    /\ UNCHANGED <<persisted, pendingUploads, uploadMutex, nFiles, nUpdates,
                   overwritten, process, configFile>>

\* Config.Save: data, err := yaml.Marshal(c)
SaveMarshal(t) ==
    /\ Alive /\ task[t].pc = "save_marshal"
    /\ task' = [task EXCEPT ![t] =
           [task[t] EXCEPT !.pc = "save_write", !.data = AuthorizedUsers]]
    /\ UNCHANGED <<AuthorizedUsers, persisted, pendingUploads, uploadMutex,
                   nFiles, nUpdates, overwritten, crashed, process,
                   configFile>>

\* Config.Save: os.WriteFile(c.configPath, data, 0644), which the file
\* system may refuse; then the reply of handleUserCommand
SaveWrite(t, ok) ==
    /\ Alive /\ task[t].pc = "save_write"
    /\ persisted' = IF ok THEN task[t].data ELSE persisted
    /\ task' = [task EXCEPT ![t] =
           Finished(task[t], IF ok THEN <<"Success">>
                             ELSE <<"OperationFailed">> \o SaveFailed, "None")]
    /\ UNCHANGED <<AuthorizedUsers, pendingUploads, uploadMutex, nFiles,
                   nUpdates, overwritten, crashed, process, configFile>>

\* ----------------------------------------------------- processImageUpload
\* The pipeline touches nothing shared: each stage is one step.  edits is
\* the text history of the status message (its first text, then the edits).

FailureMarker == "(x)"
DownloadResults == {"ok", "file_info_failed", "get_failed", "read_failed"}

SetStatusPrepend(r, text) ==
    IF r.msg THEN [r EXCEPT !.edits = <<text>> \o @] ELSE r

SetStatus(r, text) == IF r.msg THEN [r EXCEPT !.edits = Append(@, text)] ELSE r

Outcome(r, stage, failedAt) ==
    [Finished(r, r.resp, stage) EXCEPT !.msg = r.msg, !.edits = r.edits,
         !.failedAt = failedAt, !.downloads = r.downloads, !.uploads = r.uploads,
         !.image = r.image, !.gates = r.gates, !.result = r.result,
         !.request = r.request, !.reply = r.reply]

Fail(r, stageName, text) == Outcome(SetStatus(r, text), "Failed", stageName)

DownloadingRetried(t, sent, result, img) ==
    /\ Alive /\ task[t].pc = "downloading"
    /\ LET r0 == [task[t] EXCEPT !.msg = sent,
                               !.edits = IF sent THEN <<(<<"Downloading">>)>> ELSE <<>>,
                               !.downloads = @ + 1]
       IN task' = [task EXCEPT ![t] =
              IF result # "ok" /\ task[t].downloads = 0
              THEN r0
              ELSE IF result # "ok"
              THEN Fail(r0, "Downloading", <<"Error", "Download">>)
              ELSE [SetStatus(r0, <<"Validating">>)
                       EXCEPT !.pc = "validating", !.stage = "Validating",
                              !.image = img]]
    /\ UNCHANGED <<AuthorizedUsers, persisted, pendingUploads, uploadMutex,
                   nFiles, nUpdates, overwritten, crashed, process,
                   configFile>>

\* c.Bot().Send of the status message (msg stays nil when it fails), then
\* FileByID, httpClient.Get and io.ReadAll, then the "validating" edit
Downloading(t, sent, result, img) ==
    /\ Alive /\ task[t].pc = "downloading"
    /\ LET r0 == [task[t] EXCEPT !.msg = sent,
                               !.edits = IF sent THEN <<(<<"Downloading">>)>> ELSE <<>>,
                               !.downloads = @ + 1]
       IN task' = [task EXCEPT ![t] =
              CASE result = "file_info_failed" ->
                       Fail(r0, "Downloading", <<"Error", "FileInfo">>)
                [] result = "get_failed" ->
                       Fail(r0, "Downloading", <<"Error", "Download">>)
                [] result = "read_failed" ->
                       Fail(r0, "Downloading", <<"Error", "Read">>)
                [] OTHER ->
                       [SetStatus(r0, <<"Validating">>)
                           EXCEPT !.pc = "validating", !.stage = "Validating",
                                  !.image = img]]
    /\ UNCHANGED <<AuthorizedUsers, persisted, pendingUploads, uploadMutex,
                   nFiles, nUpdates, overwritten, crashed, process,
                   configFile>>

ValidatingUnchecked(t) ==
    /\ Alive /\ task[t].pc = "validating"
    /\ LET r0 == [task[t] EXCEPT !.gates = GatesTried(task[t].image),
                                 !.result = ValidateResult(task[t].image)]
       IN task' = [task EXCEPT ![t] =
              [SetStatus(r0, <<"Uploading">>)
                  EXCEPT !.pc = "uploading", !.stage = "Uploading"]]
    /\ UNCHANGED <<AuthorizedUsers, persisted, pendingUploads, uploadMutex,
                   nFiles, nUpdates, overwritten, crashed, process,
                   configFile>>

\* validator.Validate, then the failure text or the "uploading" edit
Validating(t) ==
    /\ Alive /\ task[t].pc = "validating"
    /\ LET r0 == [task[t] EXCEPT !.gates = GatesTried(task[t].image),
                                 !.result = ValidateResult(task[t].image)]
       IN task' = [task EXCEPT ![t] =
              IF Validate(task[t].image) # ""
              THEN Fail(r0, "Validating",
                        <<FailureMarker, "ValidateFailed", Validate(task[t].image)>>)
              ELSE [SetStatus(r0, <<"Uploading">>)
                       EXCEPT !.pc = "uploading", !.stage = "Uploading"]]
    /\ UNCHANGED <<AuthorizedUsers, persisted, pendingUploads, uploadMutex,
                   nFiles, nUpdates, overwritten, crashed, process,
                   configFile>>

\* b.cfClient.Upload, GetImageURL and the final text: an edit of the status
\* message, or a fresh message when there is none
Uploading(t, reply) ==
    /\ Alive /\ task[t].pc = "uploading"
    /\ LET r0 == [task[t] EXCEPT !.uploads = @ + 1,
                                 !.request = buildMultipartBody(task[t].result.Metadata),
                                 !.reply = reply]
           url == GetImageURL(reply)
       IN task' = [task EXCEPT ![t] =
              IF Upload(reply) # <<>>
              THEN Fail(r0, "Uploading",
                        <<FailureMarker, "UploadFailed">> \o Upload(reply))
              ELSE IF url[1] # ""
              THEN Fail(r0, "Uploading", <<FailureMarker, "GetURLFailed", url[1]>>)
              ELSE IF r0.msg
              THEN Outcome(SetStatus(r0, <<"UploadSuccess", url[2]>>), "Done", "")
              ELSE Outcome([r0 EXCEPT !.resp = <<"UploadSuccess", url[2]>>], "Done", "")]
    /\ UNCHANGED <<AuthorizedUsers, persisted, pendingUploads, uploadMutex,
                   nFiles, nUpdates, overwritten, crashed, process,
                   configFile>>

\* --------------------------------------------------------- specifications
\* Spec: every handler, with the pipeline's environment at its usual replies.

\* ------------------------------------------------------------- main, Stop
\* The handler goroutines are started by telebot and are counted by no
\* WaitGroup: Bot.wg counts the polling goroutine alone.

\* ------------------------------------------------------- config.Load, main

ConfigValidateNoAPIToken(file) ==
    IF file.botToken = ""
    THEN <<"ErrInvalidConfig", "telegram.bot_token is required">>
    ELSE IF file.accountID = ""
    THEN <<"ErrInvalidConfig", "cloudflare.account_id is required">>
    ELSE <<>>

\* Config.Validate: the error it returns, <<>> for nil
ConfigValidate(file) ==
    IF file.botToken = ""
    THEN <<"ErrInvalidConfig", "telegram.bot_token is required">>
    ELSE IF file.accountID = ""
    THEN <<"ErrInvalidConfig", "cloudflare.account_id is required">>
    ELSE IF file.apiToken = ""
    THEN <<"ErrInvalidConfig", "cloudflare.api_token is required">>
    ELSE <<>>

\* config.Load: the error it returns, <<>> for nil
Load(file) ==
    IF ~file.found
    THEN <<"ErrInvalidConfig", "configuration file not found">>
    ELSE IF ~file.readable
    THEN <<"ErrInvalidConfig", "failed to read config file">>
    ELSE IF ~file.parses
    THEN <<"ErrInvalidConfig", "failed to parse config file">>
    ELSE ConfigValidate(file)

\* main up to "go b.Start()": config.Load, logger.Initialize and bot.New,
\* each ended by logger.Fatal (os.Exit) on error; ok says whether the logger
\* and the telebot client could be set up.  Bot.Start registers the handlers.
main(ok) ==
    /\ ~crashed /\ process = "starting"
    /\ process' = IF Load(configFile) # <<>> \/ ~ok THEN "aborted" ELSE "running"
    /\ UNCHANGED <<AuthorizedUsers, persisted, pendingUploads, uploadMutex,
                   task, nFiles, nUpdates, overwritten, crashed, configFile>>

\* main: <-ctx.Done() returns on SIGINT or SIGTERM and main calls Bot.Stop,
\* whose telebot.Stop() ends the polling: no further update is dispatched
Signal ==
    /\ Alive /\ process = "running"
    /\ process' = "stopping"
    /\ UNCHANGED <<AuthorizedUsers, persisted, pendingUploads, uploadMutex,
                   task, nFiles, nUpdates, overwritten, crashed, configFile>>

\* Bot.Stop: b.wg.Wait() returns once the polling goroutine has ended;
\* main returns and the process ends with whatever goroutines it still has
Stop ==
    /\ Alive /\ process = "stopping"
    /\ process' = "exited"
    /\ UNCHANGED <<AuthorizedUsers, persisted, pendingUploads, uploadMutex,
                   task, nFiles, nUpdates, overwritten, crashed, configFile>>

AdminCommands == {[fields |-> 2, numeric |-> TRUE, id |-> u] : u \in Users \ {AdminID}}

Init == InitWith({<<2>>})

Next ==
    \/ \E t \in Tasks, u \in Users : handleStart(t, u)
    \/ \E t \in Tasks, u \in Users : handlePhoto(t, u)
    \/ \E t \in Tasks : PhotoLock(t)
    \/ \E t \in Tasks : PhotoStore(t)
    \/ \E t \in Tasks, u \in Users, m \in MimeTypes : handleDocument(t, u, m)
    \/ \E t \in Tasks, u \in Users : CallbackConfirm(t, u)
    \/ \E t \in Tasks : ConfirmRead(t)
    \/ \E t \in Tasks : ConfirmLock(t)
    \/ \E t \in Tasks : ConfirmDelete(t)
    \/ \E t \in Tasks, u \in Users : CallbackCancel(t, u)
    \/ \E t \in Tasks : CancelDelete(t)
    \/ \E t \in Tasks, u \in Users : CallbackDefault(t, u)
    \/ \E t \in Tasks, x \in AdminCommands : handleAuth(t, AdminID, x)
    \/ \E t \in Tasks : AddAppend(t)
    \/ \E t \in Tasks, x \in AdminCommands : handleUnauth(t, AdminID, x)
    \/ \E t \in Tasks : RemoveAtIndex(t)
    \/ \E t \in Tasks : SaveMarshal(t)
    \/ \E t \in Tasks, ok \in BOOLEAN : SaveWrite(t, ok)
    \/ \E t \in Tasks, res \in {"ok", "get_failed"}, img \in Images :
           Downloading(t, TRUE, res, img)
    \/ \E t \in Tasks : Validating(t)
    \/ \E t \in Tasks, reply \in UploadReplies : Uploading(t, reply)

Spec == Init /\ [][Next]_vars


\* SpecRoster: the /auth and /unauth commands alone, from every sender, with
\* every shape of argument, on every configured roster.

InitRoster == InitWith(InitRosters)

NextRoster ==
    \/ \E t \in Tasks, u \in Users, x \in CommandTexts : handleAuth(t, u, x)
    \/ \E t \in Tasks : AddAppend(t)
    \/ \E t \in Tasks, u \in Users, x \in CommandTexts : handleUnauth(t, u, x)
    \/ \E t \in Tasks : RemoveAtIndex(t)
    \/ \E t \in Tasks : SaveMarshal(t)
    \/ \E t \in Tasks, ok \in BOOLEAN : SaveWrite(t, ok)

SpecRoster == InitRoster /\ [][NextRoster]_vars

\* SpecValidate: documents of an authorized caller, one at a time, carrying
\* every payload of Payloads through Validate and the upload.

NextValidate ==
    \/ \E m \in MimeTypes : handleDocument(1, 2, m)
    \/ \E img \in Payloads : Downloading(1, TRUE, "ok", img)
    \/ Validating(1)
    \/ \E reply \in UploadReplies : Uploading(1, reply)

SpecValidate == Init /\ [][NextValidate]_vars

\* SpecUpload: Client.Upload called on its own with every mapping of
\* MetadataInputs, as its exported signature allows: keys inside and outside
\* the allow-list, values that leave the filtered mapping below, at and
\* above 1024 serialized characters.

MetadataKeys == {"format", "camera_make", "date_time", "comment"}
MetadataChars == {6, 1007, 1008, 1100}
MetadataInputs ==
    UNION {[keys -> MetadataChars] : keys \in SUBSET MetadataKeys}

InitUpload ==
    /\ AuthorizedUsers = <<2>>
    /\ persisted = AuthorizedUsers
    /\ pendingUploads = [u \in Users |-> NoFile]
    /\ uploadMutex = [writer |-> 0, readers |-> {}]
    /\ \E m \in MetadataInputs :
           task = [t \in Tasks |->
                     IF t = 1
                     THEN [Started("document", "uploading", 2)
                              EXCEPT !.fileID = 1, !.stage = "Uploading",
                                     !.authAtEvent = TRUE, !.msg = TRUE,
                                     !.downloads = 1,
                                     !.result = [NoResult EXCEPT !.IsValid = TRUE,
                                                                 !.Metadata = m]]
                     ELSE IdleTask]
    /\ nFiles = 1
    /\ nUpdates = 1
    /\ overwritten = {}
    /\ crashed = FALSE
    /\ process = "running"
    /\ configFile = ValidConfigFile

NextUpload == \E t \in Tasks, reply \in UploadReplies : Uploading(t, reply)

SpecUpload == InitUpload /\ [][NextUpload]_vars

\* SpecPipeline: processImageUpload in its whole environment, for the
\* documents and the confirmed photos of an authorized caller: the status
\* message is sent or not, the file retrieval succeeds or fails at each of
\* its three calls, and the remote API gives each of UploadReplies.

Caller == 2

NextPipeline ==
    \/ \E t \in Tasks, m \in MimeTypes : handleDocument(t, Caller, m)
    \/ \E t \in Tasks : handlePhoto(t, Caller)
    \/ \E t \in Tasks : PhotoLock(t)
    \/ \E t \in Tasks : PhotoStore(t)
    \/ \E t \in Tasks : CallbackConfirm(t, Caller)
    \/ \E t \in Tasks : ConfirmRead(t)
    \/ \E t \in Tasks : ConfirmLock(t)
    \/ \E t \in Tasks : ConfirmDelete(t)
    \/ \E t \in Tasks, sent \in BOOLEAN, res \in DownloadResults, img \in Images :
           Downloading(t, sent, res, img)
    \/ \E t \in Tasks : Validating(t)
    \/ \E t \in Tasks, reply \in UploadReplies : Uploading(t, reply)

SpecPipeline == Init /\ [][NextPipeline]_vars

\* SpecShutdown: the submissions of SpecPipeline and the cancel button,
\* with the termination signal arriving at any moment.

NextShutdown ==
    \/ NextPipeline
    \/ \E t \in Tasks : CallbackCancel(t, Caller)
    \/ \E t \in Tasks : CancelDelete(t)
    \/ Signal
    \/ Stop

SpecShutdown == Init /\ [][NextShutdown]_vars

\* SpecStartup: the process from its start, on every configuration file of
\* ConfigFiles, then serving the submissions of SpecPipeline.

InitStartup ==
    /\ AuthorizedUsers = <<2>>
    /\ persisted = AuthorizedUsers
    /\ pendingUploads = [u \in Users |-> NoFile]
    /\ uploadMutex = [writer |-> 0, readers |-> {}]
    /\ task = [t \in Tasks |-> IdleTask]
    /\ nFiles = 0
    /\ nUpdates = 0
    /\ overwritten = {}
    /\ crashed = FALSE
    /\ process = "starting"
    /\ configFile \in ConfigFiles

NextStartup ==
    \/ \E ok \in BOOLEAN : main(ok)
    \/ NextPipeline

SpecStartup == InitStartup /\ [][NextStartup]_vars

\* SpecLive: SpecShutdown with the scheduling the claim assumes: every
\* external call of the pipeline returns (http.Client timeouts) and a
\* runnable goroutine is eventually run, so each pipeline step of each
\* handler is weakly fair.  The signal and the users' updates are not.

Fairness ==
    \A t \in Tasks :
        /\ WF_vars(\E sent \in BOOLEAN, res \in DownloadResults, img \in Images :
                       Downloading(t, sent, res, img))
        /\ WF_vars(Validating(t))
        /\ WF_vars(\E reply \in UploadReplies : Uploading(t, reply))

SpecLive == Init /\ [][NextShutdown]_vars /\ Fairness

\* ------------------------------------------------------------- properties

\* the step in which slot t takes up a new update
TakesUp(t) ==
    /\ nUpdates' = nUpdates + 1
    /\ Free(t)
    /\ \A s \in 1..(t - 1) : ~Free(s)

\* the caller of the handler that slot t has just started fails IsAuthorized
CallerUnauthorized(t) ==
    /\ task'[t].user # AdminID
    /\ task'[t].user \notin Range(AuthorizedUsers)

\* the handler in slot t is inside a critical section of the resource
StoreWriting(t) == task[t].pc \in {"photo_store", "confirm_delete", "cancel_delete"}
StoreReading(t) == task[t].pc = "confirm_read"
RosterWriting(t) == task[t].pc \in {"add_append", "remove_at"}
RosterReading(t) == task[t].pc = "save_marshal"

\* the confirm in slot t has started the download/upload pipeline
ConfirmInPipeline(t) ==
    /\ task[t].kind = "confirm"
    /\ task[t].stage \in {"Downloading", "Validating", "Uploading", "Done", "Failed"}

\* C1: the Remote Upload Client is invoked for a caller only if the caller
\* passed IsAuthorized when the document message or confirm press that
\* started the pipeline was handled.
UploadOnlyForAuthorized ==
    \A t \in Tasks : task[t].pc = "uploading" => task[t].authAtEvent

\* C2: when a caller who fails IsAuthorized sends a photo or a document, the
\* handler ends at once with the denial; the pending store, its lock, the
\* roster, the file and every other handler are left as they were, and no
\* download and no upload has been made.
UnauthorizedIntakeOnlyDenies ==
    [][\A t \in Tasks :
         (/\ TakesUp(t)
          /\ task'[t].kind \in {"photo", "document"}
          /\ CallerUnauthorized(t))
         => /\ task'[t].pc = "done"
            /\ task'[t].resp = <<"Unauthorized">>
            /\ task'[t].stage = "None"
            /\ task'[t].downloads = 0 /\ task'[t].uploads = 0
            /\ pendingUploads' = pendingUploads
            /\ overwritten' = overwritten
            /\ uploadMutex' = uploadMutex
            /\ AuthorizedUsers' = AuthorizedUsers /\ persisted' = persisted
            /\ \A s \in Tasks \ {t} : task'[s] = task[s]]_vars

\* C2 witness: a photo or document was denied while another caller's photo
\* waits in the store.
UnauthorizedIntakeDenied ==
    \E t \in Tasks :
        /\ task[t].pc = "done" /\ task[t].kind \in {"photo", "document"}
        /\ task[t].resp = <<"Unauthorized">>
        /\ ~IsAuthorized(task[t].user)
        /\ \E u \in Users : pendingUploads[u] # NoFile

\* C3: one stashed reference is handed to at most one confirm, so no two
\* confirms run the pipeline on the same reference.
TakeHandsOutOnce ==
    \A t1, t2 \in Tasks :
        (t1 # t2 /\ ConfirmInPipeline(t1) /\ ConfirmInPipeline(t2))
        => task[t1].fileID # task[t2].fileID

\* C4: storing a photo replaces whatever the caller had pending and touches
\* no other caller's entry; a confirm reads the caller's entry as it is then,
\* never a replaced reference, and runs the pipeline on what it read.
StashLastWriteWins ==
    [][\A t \in Tasks :
         /\ (task[t].pc = "photo_store" /\ task'[t].pc = "done")
            => /\ pendingUploads'[task[t].user] = task[t].fileID
               /\ \A v \in Users \ {task[t].user} :
                      pendingUploads'[v] = pendingUploads[v]
         /\ (task[t].pc = "confirm_read" /\ task'[t].pc = "confirm_lock")
            => /\ task'[t].fileID = pendingUploads[task[t].user]
               /\ <<task[t].user, task'[t].fileID>> \notin overwritten
         /\ (task[t].kind = "confirm" /\ task[t].fileID # NoFile
               /\ task[t].pc # "done")
            => task'[t].fileID = task[t].fileID]_vars

\* C4 witness: a caller's second photo replaced the first, and the caller's
\* confirm runs the pipeline on the second.
SecondPhotoConfirmed ==
    \E t \in Tasks, f \in 1..MaxFiles :
        /\ ConfirmInPipeline(t)
        /\ <<task[t].user, f>> \in overwritten
        /\ task[t].fileID # f
        /\ task[t].fileID # NoFile

\* C5: no write of the pending store or of the roster overlaps another read
\* or write of the same resource.
LockDiscipline ==
    \A t1, t2 \in Tasks :
        t1 # t2 =>
            /\ ~(StoreWriting(t1) /\ (StoreWriting(t2) \/ StoreReading(t2)))
            /\ ~(RosterWriting(t1) /\ (RosterWriting(t2) \/ RosterReading(t2)))

\* C6: when AddAuthorizedUser or RemoveAuthorizedUser returns the error of
\* a failed Save, the in-memory roster is the roster from before the call.
FailedSaveLeavesRoster ==
    [][\A t \in Tasks :
         (/\ task[t].pc = "save_write" /\ task'[t].pc = "done"
          /\ task'[t].resp = <<"OperationFailed">> \o SaveFailed)
         => AuthorizedUsers' = task[t].before]_vars

\* C7: when AddAuthorizedUser or RemoveAuthorizedUser returns success, the
\* file holds exactly the roster that its own mutation produced.
SuccessPersistsOwnMutation ==
    [][\A t \in Tasks :
         (/\ task[t].pc = "save_write" /\ task'[t].pc = "done"
          /\ task'[t].resp = <<"Success">>)
         => persisted' = task[t].after]_vars

\* C8: IsAuthorized(id) is true exactly when id is the admin or a member of
\* the roster, and IsAdmin(id) exactly when id is the admin, in every state
\* of the roster.
RosterPredicates ==
    \A id \in Users \cup {0} :
        /\ IsAuthorized(id) <=> (id = AdminID \/ id \in Range(AuthorizedUsers))
        /\ IsAdmin(id) <=> id = AdminID

\* C8 witness: after a successful command the roster lists one user and
\* neither the admin nor another user.
RosterPredicatesExercised ==
    /\ AdminID \notin Range(AuthorizedUsers)
    /\ 2 \in Range(AuthorizedUsers) /\ 3 \notin Range(AuthorizedUsers)
    /\ IsAuthorized(AdminID) /\ IsAuthorized(2) /\ ~IsAuthorized(3)
    /\ \E t \in Tasks : task[t].pc = "done" /\ task[t].resp = <<"Success">>

\* C9: an /auth of the admin for an id that is the admin or a member of the
\* roster ends at once with the ErrUserAlreadyExists error, with the roster
\* and the file as they were.
AddRefusesAuthorized ==
    [][\A t \in Tasks :
         (/\ TakesUp(t)
          /\ task'[t].kind = "auth"
          /\ CommandGate(task'[t].user, task'[t].text) = <<>>
          /\ \/ task'[t].text.id = AdminID
             \/ task'[t].text.id \in Range(AuthorizedUsers))
         => /\ task'[t].pc = "done"
            /\ task'[t].resp = <<"OperationFailed">> \o AlreadyAuthorized
            /\ AuthorizedUsers' = AuthorizedUsers
            /\ persisted' = persisted]_vars

\* C9 witness: adding the admin was refused while the admin is not listed,
\* and adding a listed user was refused.
AddOfAdminRefused ==
    \E t1, t2 \in Tasks :
        /\ task[t1].pc = "done" /\ task[t1].kind = "auth"
        /\ task[t1].text.id = AdminID
        /\ task[t1].resp = <<"OperationFailed">> \o AlreadyAuthorized
        /\ AdminID \notin Range(AuthorizedUsers)
        /\ task[t2].pc = "done" /\ task[t2].kind = "auth"
        /\ task[t2].text.id # AdminID
        /\ task[t2].resp = <<"OperationFailed">> \o AlreadyAuthorized

\* C10: an /unauth of the admin ends at once with the "cannot remove admin
\* user" error when the id is the admin, and with the ErrUserNotFound error
\* when the id is not the admin and not a member of the roster; the roster
\* and the file are as they were.
RemoveRefusals ==
    [][\A t \in Tasks :
         (/\ TakesUp(t)
          /\ task'[t].kind = "unauth"
          /\ CommandGate(task'[t].user, task'[t].text) = <<>>)
         => /\ (task'[t].text.id = AdminID)
               => /\ task'[t].pc = "done"
                  /\ task'[t].resp = <<"OperationFailed">> \o CannotRemoveAdmin
                  /\ AuthorizedUsers' = AuthorizedUsers
                  /\ persisted' = persisted
            /\ (/\ task'[t].text.id # AdminID
                /\ task'[t].text.id \notin Range(AuthorizedUsers))
               => /\ task'[t].pc = "done"
                  /\ task'[t].resp = <<"OperationFailed">> \o NotFound
                  /\ AuthorizedUsers' = AuthorizedUsers
                  /\ persisted' = persisted]_vars

\* C10 witness: removing the admin was refused while the admin is listed,
\* and removing an unlisted user was refused.
RemoveOfListedAdminRefused ==
    \E t1, t2 \in Tasks :
        /\ task[t1].pc = "done" /\ task[t1].kind = "unauth"
        /\ task[t1].text.id = AdminID
        /\ task[t1].resp = <<"OperationFailed">> \o CannotRemoveAdmin
        /\ AdminID \in Range(AuthorizedUsers)
        /\ task[t2].pc = "done" /\ task[t2].kind = "unauth"
        /\ task[t2].resp = <<"OperationFailed">> \o NotFound

\* C11: through every /auth and /unauth from any caller the admin stays
\* authorized and stays the one admin, and an admin listed in the roster
\* stays listed.
AdminStaysAuthorized ==
    [][/\ IsAuthorized(AdminID) /\ IsAuthorized(AdminID)'
       /\ \A id \in Users : IsAdmin(id)' <=> id = AdminID
       /\ AdminID \in Range(AuthorizedUsers)
             => AdminID \in Range(AuthorizedUsers')]_vars

\* C11 witness: the admin is listed, an /unauth of the admin was refused and
\* another /unauth went through.
AdminSurvivesCommands ==
    \E t1, t2 \in Tasks :
        /\ task[t1].pc = "done" /\ task[t1].kind = "unauth"
        /\ task[t1].text.id = AdminID
        /\ task[t1].resp = <<"OperationFailed">> \o CannotRemoveAdmin
        /\ task[t2].pc = "done" /\ task[t2].kind = "unauth"
        /\ task[t2].resp = <<"Success">>
        /\ AdminID \in Range(AuthorizedUsers)
        /\ IsAuthorized(AdminID)

\* C12: an /unauth that repeats, with nothing else running, the /unauth
\* that has just succeeded for the same id fails with the ErrUserNotFound
\* error and leaves the roster and the file as the first one left them.
RemoveTwiceNotFound ==
    [][\A t \in Tasks :
         (/\ TakesUp(t)
          /\ task[t].pc = "done" /\ task[t].kind = "unauth"
          /\ task[t].resp = <<"Success">>
          /\ task'[t].kind = "unauth"
          /\ task'[t].user = AdminID
          /\ task'[t].text = task[t].text
          /\ \A s \in Tasks \ {t} : task[s].kind = "none")
         => /\ task'[t].pc = "done"
            /\ task'[t].resp = <<"OperationFailed">> \o NotFound
            /\ AuthorizedUsers' = AuthorizedUsers
            /\ persisted' = persisted]_vars

\* C13: an /auth or /unauth from a sender who is not the admin, or with a
\* field count other than two, or with an id ParseInt rejects, ends at once
\* with the matching refusal and leaves the roster and the file as they
\* were; and every step that changes the roster is the append or removal of
\* a command sent by the admin that passed those gates.
OnlyAdminCommandsMutate ==
    [][/\ \A t \in Tasks :
            (/\ TakesUp(t)
             /\ task'[t].kind \in {"auth", "unauth"}
             /\ \/ task'[t].user # AdminID
                \/ task'[t].text.fields # 2
                \/ ~task'[t].text.numeric)
            => /\ task'[t].pc = "done"
               /\ task'[t].resp =
                      (IF task'[t].user # AdminID THEN <<"AdminOnly">>
                       ELSE IF task'[t].text.fields # 2 THEN <<"Usage">>
                       ELSE <<"InvalidUserID">>)
               /\ AuthorizedUsers' = AuthorizedUsers
               /\ persisted' = persisted
       /\ (AuthorizedUsers' # AuthorizedUsers)
            => \E t \in Tasks :
                   /\ task[t].pc \in {"add_append", "remove_at"}
                   /\ task'[t].pc = "save_marshal"
                   /\ task[t].user = AdminID
                   /\ task[t].text.fields = 2 /\ task[t].text.numeric]_vars

\* C13 witness: a command of an authorized non-admin and a malformed
\* command of the admin were both refused.
ForeignAndMalformedRefused ==
    \E t1, t2 \in Tasks :
        /\ task[t1].pc = "done" /\ task[t1].kind \in {"auth", "unauth"}
        /\ task[t1].user # AdminID /\ IsAuthorized(task[t1].user)
        /\ task[t1].text.fields = 2 /\ task[t1].text.numeric
        /\ task[t1].resp = <<"AdminOnly">>
        /\ task[t2].pc = "done" /\ task[t2].kind \in {"auth", "unauth"}
        /\ task[t2].user = AdminID /\ task[t2].text.fields = 3
        /\ task[t2].resp = <<"Usage">>

\* Validate has run on the payload of the handler in slot t
Validated(t) == task[t].gates # <<>>

\* the error Validate returned to the handler in slot t, "" for none
ValidateErrorOf(t) ==
    IF task[t].failedAt = "Validating"
    THEN task[t].edits[Len(task[t].edits)][3]
    ELSE ""

\* the area ceiling of a decoded format
CeilingOf(format) == IF format = "gif" THEN 50 * 1000 * 1000 ELSE 100 * 1000 * 1000

\* C14: Validate tries the byte length, then the header decode, then the
\* sides, then the area, stops at the first gate that fails and returns that
\* gate's error and no result; above 10 MiB it returns ErrImageTooLarge
\* having tried nothing but the length.
ValidateGateOrder ==
    \A t \in Tasks :
        Validated(t) =>
            LET img == task[t].image
                err == ValidateErrorOf(t)
                sizeOK == img.size <= 10 * 1024 * 1024
                sidesOK == img.width <= 12000 /\ img.height <= 12000
            IN /\ ~sizeOK => (err = "ErrImageTooLarge" /\ task[t].gates = <<"size">>)
               /\ (sizeOK /\ ~img.decodes)
                    => (err = "ErrInvalidImage"
                          /\ task[t].gates = <<"size", "decode">>)
               /\ (sizeOK /\ img.decodes /\ ~sidesOK)
                    => (err = "ErrImageTooBig"
                          /\ task[t].gates = <<"size", "decode", "dimension">>)
               /\ (sizeOK /\ img.decodes /\ sidesOK
                     /\ img.width * img.height > CeilingOf(img.format))
                    => (err = "ErrImageTooBig"
                          /\ task[t].gates = <<"size", "decode", "dimension", "area">>)
               /\ err # "" => (task[t].result = NoResult /\ task[t].uploads = 0)

\* C14 witness: a payload above 10 MiB that would not decode either was
\* refused for its length.
OversizedRefusedFirst ==
    \E t \in Tasks :
        /\ Validated(t)
        /\ task[t].image.size > 10 * 1024 * 1024 /\ ~task[t].image.decodes
        /\ ValidateErrorOf(t) = "ErrImageTooLarge"
        /\ task[t].pc = "done" /\ task[t].stage = "Failed"

\* C15 as stated: every payload whose decoded width*height exceeds the
\* ceiling of its format fails with ErrImageTooBig, whatever its length.
AreaAlwaysTooBig ==
    \A t \in Tasks :
        (/\ Validated(t) /\ task[t].image.decodes
         /\ task[t].image.width * task[t].image.height
               > CeilingOf(task[t].image.format))
        => ValidateErrorOf(t) = "ErrImageTooBig"

\* C15 amended: every payload of at most 10 MiB whose decoded width*height
\* exceeds the ceiling of its format (100,000,000, or 50,000,000 for gif)
\* fails with ErrImageTooBig.
AreaTooBigWithinSize ==
    \A t \in Tasks :
        (/\ Validated(t) /\ task[t].image.decodes
         /\ task[t].image.size <= 10 * 1024 * 1024
         /\ task[t].image.width * task[t].image.height
               > CeilingOf(task[t].image.format))
        => /\ ValidateErrorOf(t) = "ErrImageTooBig"
           /\ task[t].result = NoResult

\* C15 witness: a small gif just above 50,000,000 pixels, with both sides
\* within 12000, was refused as too big.
GifAboveCeilingRefused ==
    \E t \in Tasks :
        /\ Validated(t)
        /\ task[t].image.format = "gif" /\ task[t].image.size = 204800
        /\ task[t].image.width = 10000 /\ task[t].image.height = 5001
        /\ ValidateErrorOf(t) = "ErrImageTooBig"

\* C16: Validate succeeds exactly when the payload is at most 10 MiB,
\* decodes, has both sides at most 12000 and an area at most the ceiling of
\* its format; the result then has IsValid set and carries the decoded
\* format and sides and the payload length.
ValidateAcceptsExactly ==
    \A t \in Tasks :
        Validated(t) =>
            LET img == task[t].image
                within == /\ img.size <= 10 * 1024 * 1024
                          /\ img.decodes
                          /\ img.width <= 12000 /\ img.height <= 12000
                          /\ img.width * img.height <= CeilingOf(img.format)
            IN /\ (ValidateErrorOf(t) = "") <=> within
               /\ task[t].result.IsValid <=> within
               /\ within => /\ task[t].result.Format = img.format
                            /\ task[t].result.Width = img.width
                            /\ task[t].result.Height = img.height
                            /\ task[t].result.Size = img.size

\* C16 witness: a payload exactly at the byte limit and exactly at the
\* static area ceiling was accepted.
BoundaryAccepted ==
    \E t \in Tasks :
        /\ Validated(t) /\ task[t].result.IsValid
        /\ task[t].image.size = 10 * 1024 * 1024
        /\ task[t].image.width * task[t].image.height = 100 * 1000 * 1000
        /\ task[t].result.Size = 10 * 1024 * 1024
        /\ task[t].result.Width = 10000 /\ task[t].result.Height = 10000

\* C17: the metadata of a successful result serializes to at most 1024
\* characters; when what extractMetadata assembled serializes to more, the
\* result carries exactly format, width, height and size instead.
ResultMetadataCapped ==
    \A t \in Tasks :
        (Validated(t) /\ task[t].result.IsValid) =>
            /\ JSONLen(task[t].result.Metadata) <= 1024
            /\ JSONLen(extractMetadata(task[t].image)) > 1024
                 => /\ DOMAIN task[t].result.Metadata
                          = {"format", "width", "height", "size"}
                    /\ task[t].result.Metadata = SimplifiedMetadata(task[t].image)

\* C17 witness: a jpeg whose camera make pushes the assembled metadata to
\* 1025 characters got the fallback mapping.
FallbackMetadataUsed ==
    \E t \in Tasks :
        /\ Validated(t) /\ task[t].result.IsValid
        /\ JSONLen(extractMetadata(task[t].image)) = 1025
        /\ DOMAIN task[t].result.Metadata = {"format", "width", "height", "size"}

\* C18: every key of the metadata field of an upload request is one of
\* width, height, format, file_size, camera_make, camera_model, with the
\* value the caller gave for it.
OnlyAllowedMetadataForwarded ==
    \A t \in Tasks :
        task[t].request.built =>
            /\ DOMAIN task[t].request.metadata \subseteq
                   {"width", "height", "format", "file_size",
                    "camera_make", "camera_model"}
            /\ DOMAIN task[t].request.metadata \subseteq DOMAIN task[t].result.Metadata
            /\ \A k \in DOMAIN task[t].request.metadata :
                   task[t].request.metadata[k] = task[t].result.Metadata[k]

\* C18 witness: a mapping with a capture timestamp and a free-form comment
\* was uploaded with its format and camera make only.
TimestampNotForwarded ==
    \E t \in Tasks :
        /\ task[t].request.built /\ task[t].request.hasMetadata
        /\ {"date_time", "comment", "format", "camera_make"}
               \subseteq DOMAIN task[t].result.Metadata
        /\ DOMAIN task[t].request.metadata = {"format", "camera_make"}
        /\ task[t].stage = "Done"

\* C19: a metadata field in an upload request serializes to at most 1024
\* characters; when the filtered mapping serializes to more, the request is
\* still built and sent, without the field.
RequestMetadataCapped ==
    \A t \in Tasks :
        task[t].uploads > 0 =>
            /\ task[t].request.built
            /\ task[t].request.hasMetadata
                 => JSONLen(task[t].request.metadata) <= 1024
            /\ JSONLen(filterMetadata(task[t].result.Metadata)) > 1024
                 => (~task[t].request.hasMetadata
                       /\ task[t].request.metadata = NoMetadata)

\* C19 witness: an upload whose filtered metadata serializes to more than
\* 1024 characters went through without a metadata field.
OversizedMetadataDropped ==
    \E t \in Tasks :
        /\ task[t].uploads > 0 /\ task[t].stage = "Done"
        /\ JSONLen(filterMetadata(task[t].result.Metadata)) > 1024
        /\ task[t].request.built /\ ~task[t].request.hasMetadata

\* C20: a confirm that finds no entry for its caller ends with the
\* no-pending-upload reply; it downloads and uploads nothing and leaves the
\* pending store, the roster, the file and every other handler as they were.
ConfirmWithoutPendingOnlyReplies ==
    [][\A t \in Tasks :
         (/\ task[t].pc = "confirm_read" /\ task'[t].pc # "confirm_read"
          /\ pendingUploads[task[t].user] = NoFile)
         => /\ task'[t].pc = "done"
            /\ task'[t].resp = <<"NoPendingUpload">>
            /\ task'[t].stage = "None"
            /\ task'[t].downloads = 0 /\ task'[t].uploads = 0
            /\ pendingUploads' = pendingUploads
            /\ overwritten' = overwritten
            /\ uploadMutex'.writer = uploadMutex.writer
            /\ AuthorizedUsers' = AuthorizedUsers /\ persisted' = persisted
            /\ \A s \in Tasks \ {t} : task'[s] = task[s]]_vars

\* C20 witness: a confirm of a caller without an entry was answered with
\* the no-pending-upload reply while another caller's photo stays stashed.
ConfirmWithoutPendingAnswered ==
    \E t \in Tasks, u \in Users :
        /\ task[t].pc = "done" /\ task[t].kind = "confirm"
        /\ task[t].resp = <<"NoPendingUpload">>
        /\ task[t].downloads = 0 /\ task[t].uploads = 0
        /\ u # task[t].user
        /\ pendingUploads[u] # NoFile /\ pendingUploads[task[t].user] = NoFile

\* the step in which the cancel in slot t deletes and answers
CancelDeletes(t) ==
    task[t].pc = "cancel_delete" /\ task'[t].pc # "cancel_delete"

\* C21: a cancel press removes its caller's entry and nothing else, answers
\* Cancelled and neither downloads nor uploads; dropping again, or dropping
\* with nothing pending, leaves the store as it is; an entry that a cancel
\* emptied stays empty until a photo of the same caller is stored, and a
\* confirm that reads an empty entry is told that nothing is pending.
CancelDropsEntry ==
    [][\A t \in Tasks :
         /\ CancelDeletes(t)
            => /\ pendingUploads'[task[t].user] = NoFile
               /\ \A u \in Users \ {task[t].user} :
                      pendingUploads'[u] = pendingUploads[u]
               /\ pendingUploads[task[t].user] = NoFile
                      => pendingUploads' = pendingUploads
               /\ Drop(pendingUploads', task[t].user) = pendingUploads'
               /\ task'[t].pc = "done"
               /\ task'[t].stage = "Cancelled"
               /\ task'[t].resp = <<"Cancelled">>
               /\ task'[t].downloads = 0 /\ task'[t].uploads = 0
               /\ \A s \in Tasks \ {t} : task'[s] = task[s]
         /\ \A u \in Users :
                (pendingUploads[u] = NoFile /\ pendingUploads'[u] # NoFile)
                => \E s \in Tasks :
                       /\ task[s].pc = "photo_store" /\ task[s].user = u
                       /\ pendingUploads'[u] = task[s].fileID
         /\ (/\ task[t].pc = "confirm_read" /\ task'[t].pc # "confirm_read"
             /\ pendingUploads[task[t].user] = NoFile)
            => /\ task'[t].pc = "done"
               /\ task'[t].resp = <<"NoPendingUpload">>
               /\ task'[t].downloads = 0 /\ task'[t].uploads = 0]_vars

\* C21 witness: after a document, a photo and a cancel of one caller, the
\* photo's prompt is still on record, the cancel has answered and the
\* caller's entry is gone.
PhotoCancelled ==
    \E t, s \in Tasks :
        /\ task[t].kind = "cancel" /\ task[t].pc = "done"
        /\ task[t].stage = "Cancelled"
        /\ task[s].kind = "photo" /\ task[s].resp = <<"ConfirmPrompt">>
        /\ task[s].user = task[t].user
        /\ pendingUploads[task[t].user] = NoFile
        /\ nUpdates = 3 /\ nFiles = 2

\* the pcs of processImageUpload
PipelinePcs == {"downloading", "validating", "uploading"}

\* C22: the handler of a photo message only stashes: it never downloads,
\* validates or uploads.  A confirm enters the pipeline with the reference
\* it read from its own caller's entry of the store and keeps that
\* reference to the end, so the file of a photo is fetched only by a
\* confirm of the caller who sent it.
PhotoWaitsForConfirm ==
    [][\A t \in Tasks :
         /\ task'[t].kind = "photo"
            => /\ task'[t].pc \notin PipelinePcs
               /\ task'[t].stage \in {"Received", "Pending", "None"}
               /\ task'[t].downloads = 0 /\ task'[t].uploads = 0
               /\ task'[t].image = NoImage
         /\ (/\ task[t].pc = "confirm_read"
             /\ task'[t].pc \notin {"confirm_read", "done"})
            => /\ task'[t].fileID = pendingUploads[task[t].user]
               /\ task'[t].fileID # NoFile
               /\ task'[t].downloads = 0
         /\ (/\ task[t].kind = "confirm"
             /\ task[t].pc \in {"confirm_lock", "confirm_delete"} \cup PipelinePcs
             /\ ~TakesUp(t))
            => /\ task'[t].fileID = task[t].fileID
               /\ task'[t].user = task[t].user
         /\ \A s \in Tasks :
                (/\ task'[s].kind = "photo" /\ task'[t].downloads > 0
                 /\ task'[t].fileID = task'[s].fileID)
                => task'[t].kind = "confirm" /\ task'[t].user = task'[s].user]_vars

\* C22 witness: a photo's prompt is on record and a confirm of the same
\* caller has carried the photo's reference through to Done.
PhotoConfirmedThenUploaded ==
    \E t, s \in Tasks :
        /\ task[s].kind = "photo" /\ task[s].resp = <<"ConfirmPrompt">>
        /\ task[t].kind = "confirm" /\ task[t].stage = "Done"
        /\ task[t].downloads = 1 /\ task[t].uploads = 1
        /\ task[t].fileID = task[s].fileID
        /\ task[t].user = task[s].user

\* C23: a document whose sender passed the authorization gate and whose
\* declared content type does not begin with "image/" is answered with the
\* unsupported-type text by the handler itself: it never enters
\* Downloading, and nothing is fetched, validated or uploaded for it; a
\* document whose type does begin with "image/" is passed to the pipeline.
NonImageDocumentRejected ==
    \A t \in Tasks :
        (task[t].kind = "document" /\ task[t].mime # <<>>)
        => IF Len(task[t].mime) >= 2 /\ task[t].mime[1] = "image"
               /\ task[t].mime[2] = "/"
           THEN task[t].stage # "None" /\ task[t].resp # <<"UnsupportedType">>
           ELSE /\ task[t].pc = "done"
                /\ task[t].resp = <<"UnsupportedType">>
                /\ task[t].stage = "None"
                /\ ~task[t].msg /\ task[t].edits = <<>>
                /\ task[t].downloads = 0 /\ task[t].uploads = 0
                /\ task[t].image = NoImage
                /\ task[t].gates = <<>>
                /\ task[t].request = NoRequest

\* C23 witness: a document declared as "image" alone, without the slash,
\* was rejected as unsupported while an image document of the same caller
\* is being processed.
NonImageRejectedImageProcessed ==
    \E t, s \in Tasks :
        /\ task[t].kind = "document" /\ task[t].mime = <<"image">>
        /\ task[t].resp = <<"UnsupportedType">>
        /\ task[s].kind = "document" /\ task[s].mime = <<"image", "/", "png">>
        /\ task[s].user = task[t].user
        /\ task[s].stage = "Validating"

\* the stage a submission may move to from each stage
NextStages(stage) ==
    CASE stage = "None" -> {"Downloading"}
      [] stage = "Received" -> {"Pending", "None"}
      [] stage = "Downloading" -> {"Validating", "Failed"}
      [] stage = "Validating" -> {"Uploading", "Failed"}
      [] stage = "Uploading" -> {"Done", "Failed"}
      [] OTHER -> {}

\* C24: a submission changes stage only along Downloading, Validating,
\* Uploading, Done, or into Failed.  The Remote Upload Client has been
\* called only for a submission whose download succeeded and whose
\* downloaded bytes Validate accepted; a submission that failed in
\* Downloading or Validating has made no call of it, and one that failed
\* in Downloading has not been validated either.
StagesInOrder ==
    [][\A t \in Tasks :
         /\ (~TakesUp(t) /\ task'[t].stage # task[t].stage)
            => task'[t].stage \in NextStages(task[t].stage)
         /\ (task'[t].uploads > 0 \/ task'[t].stage \in {"Uploading", "Done"})
            => /\ task'[t].downloads = 1
               /\ task'[t].image # NoImage
               /\ task'[t].gates # <<>>
               /\ Validate(task'[t].image) = ""
               /\ task'[t].result.IsValid
         /\ task'[t].stage = "Done" => task'[t].uploads = 1
         /\ (task'[t].stage = "Failed"
             /\ task'[t].failedAt \in {"Downloading", "Validating"})
            => /\ task'[t].uploads = 0
               /\ task'[t].request = NoRequest
               /\ task'[t].reply = NoReply
         /\ (task'[t].stage = "Failed" /\ task'[t].failedAt = "Downloading")
            => task'[t].image = NoImage /\ task'[t].gates = <<>>
         /\ (task'[t].stage = "Failed" /\ task'[t].failedAt = "Validating")
            => Validate(task'[t].image) # ""]_vars

\* C24 witness: a 15000 x 8000 image has ended in Failed at Validating with
\* no call of the Remote Upload Client, another submission's download has
\* failed, and neither has a request built.
FailedBeforeUpload ==
    \E t, s \in Tasks :
        /\ task[t].stage = "Failed" /\ task[t].failedAt = "Validating"
        /\ task[t].image.width = 15000 /\ task[t].image.height = 8000
        /\ task[t].downloads = 1 /\ task[t].uploads = 0
        /\ task[s].stage = "Failed" /\ task[s].failedAt = "Downloading"
        /\ task[s].uploads = 0

\* every text the caller was shown for the submission in slot t: the texts
\* of the status message and the handler's own reply
Shown(t) == Range(task[t].edits) \cup {task[t].resp}

\* the text the caller is left with: the last text of the status message
\* when there is one, else the handler's own reply
FinalText(t) ==
    IF task[t].msg THEN task[t].edits[Len(task[t].edits)] ELSE task[t].resp

\* C25: when the remote call reported success, a submission whose response
\* lists variants ends in Done and its final text is the success text with
\* the first variant; one whose variant list is empty ends in Failed at
\* Uploading with the no-variants error, and no success text was shown.
FirstVariantReported ==
    \A t \in Tasks :
        (task[t].uploads = 1 /\ task[t].pc = "done"
         /\ ~task[t].reply.transport /\ task[t].reply.success)
        => IF Len(task[t].reply.variants) = 0
           THEN /\ task[t].stage = "Failed" /\ task[t].failedAt = "Uploading"
                /\ \A x \in Shown(t) : x = <<>> \/ x[1] # "UploadSuccess"
                /\ task[t].msg
                       => FinalText(t) = <<FailureMarker, "GetURLFailed",
                                           "no image variants in response">>
           ELSE /\ task[t].stage = "Done"
                /\ FinalText(t) = <<"UploadSuccess", task[t].reply.variants[1]>>

\* C25 witness: one submission ended in Done reporting the first of two
\* variants, another got a success response without variants and failed.
FirstOfTwoVariantsAndNone ==
    \E t, s \in Tasks :
        /\ task[t].stage = "Done" /\ Len(task[t].reply.variants) = 2
        /\ FinalText(t) = <<"UploadSuccess", "url_public">>
        /\ task[s].stage = "Failed" /\ task[s].reply.success
        /\ task[s].reply.variants = <<>>

\* C26: a submission fetches its file at most once and calls the Remote
\* Upload Client at most once; a submission in Failed has returned, whatever
\* stage failed, and the record of a returned handler changes only when a
\* new update takes its slot.
NoRetries ==
    [][\A t \in Tasks :
         /\ task'[t].downloads <= 1
         /\ task'[t].uploads <= 1
         /\ task'[t].stage = "Failed"
                => /\ task'[t].pc = "done"
                   /\ task'[t].failedAt \in {"Downloading", "Validating", "Uploading"}
         /\ (task[t].pc = "done" /\ task'[t] # task[t]) => TakesUp(t)
         /\ (task[t].pc \in PipelinePcs /\ task'[t] # task[t])
                => /\ task'[t].downloads + task'[t].uploads
                        = task[t].downloads + task[t].uploads + 1
                      \/ task[t].pc = "validating"
                   /\ task'[t].pc # task[t].pc]_vars

\* C26 witness: a failed download and a success response without variants
\* have each ended a submission, with one download and at most one upload.
FailuresAreFinal ==
    \E t, s \in Tasks :
        /\ task[t].stage = "Failed" /\ task[t].failedAt = "Downloading"
        /\ task[t].downloads = 1 /\ task[t].uploads = 0
        /\ task[s].stage = "Failed" /\ task[s].failedAt = "Uploading"
        /\ task[s].reply.success /\ task[s].reply.variants = <<>>
        /\ task[s].downloads = 1 /\ task[s].uploads = 1

\* a text that opens with the failure marker
Marked(text) == Len(text) > 0 /\ text[1] = FailureMarker

\* the submission in slot t got a non-success answer from Client.Upload
UploadRefused(t) ==
    /\ task[t].pc = "done" /\ task[t].uploads = 1
    /\ task[t].reply.transport \/ ~task[t].reply.success

\* C27: a submission whose remote call failed in transport, or came back
\* with the success flag false, is in Failed at Uploading; the text the
\* caller is left with opens with the failure marker and carries every
\* remote error message, and no text shown carries a variant of the
\* response.
UploadFailureShown ==
    \A t \in Tasks :
        UploadRefused(t)
        => /\ task[t].stage = "Failed" /\ task[t].failedAt = "Uploading"
           /\ Marked(FinalText(t))
           /\ \A e \in Range(task[t].reply.errors) : e \in Range(FinalText(t))
           /\ \A x \in Shown(t) :
                  Range(x) \cap Range(task[t].reply.variants) = {}

\* the pipeline in slot t has returned without a status message
EndedWithoutStatus(t) ==
    task[t].pc = "done" /\ task[t].downloads = 1 /\ ~task[t].msg

\* C28: when the status message could not be sent, no progress text is
\* shown, and the handler's own message carries the terminal outcome: the
\* success text after Done, a failure text after Failed.
OutcomeSentWithoutStatus ==
    \A t \in Tasks :
        EndedWithoutStatus(t)
        => /\ task[t].edits = <<>>
           /\ task[t].stage \in {"Done", "Failed"}
           /\ task[t].stage = "Done"
                  => task[t].resp = <<"UploadSuccess", task[t].reply.variants[1]>>
           /\ task[t].stage = "Failed"
                  => /\ Len(task[t].resp) > 0
                     /\ task[t].resp[1] \in {FailureMarker, "Error"}

\* the failure texts among the texts shown for the submission in slot t
FailureTexts(t) ==
    {i \in DOMAIN task[t].edits : Marked(task[t].edits[i])}

\* C29: a submission in Failed, whichever stage failed, has shown exactly
\* one text that opens with the failure marker, and it is the text the
\* caller is left with.
EveryFailureMarkedOnce ==
    \A t \in Tasks :
        task[t].stage = "Failed"
        => /\ Marked(FinalText(t))
           /\ Cardinality(FailureTexts(t))
                + (IF Marked(task[t].resp) THEN 1 ELSE 0) = 1

\* the stages between the start of the download and the terminal outcome
InFlightStages == {"Downloading", "Validating", "Uploading"}

\* C30: once the signal has come no further update is taken up, and the
\* process exits only when no submission is left in Downloading,
\* Validating or Uploading.
ExitWaitsForInFlight ==
    [][/\ process # "running" => nUpdates' = nUpdates
       /\ process' = "exited"
              => \A t \in Tasks : task'[t].stage \notin InFlightStages]_vars

\* the configuration file is missing, unreadable or unparsable, or one of
\* the three required strings is empty
ConfigurationError ==
    \/ ~configFile.found \/ ~configFile.readable \/ ~configFile.parses
    \/ configFile.botToken = "" \/ configFile.accountID = ""
    \/ configFile.apiToken = ""

\* C31: with a configuration error the process never serves: it is starting
\* or aborted, no update has been taken up and no handler has run; and a
\* submission that ended in Failed leaves the process running.
ConfigErrorAbortsBeforeServing ==
    /\ ConfigurationError => process \in {"starting", "aborted"}
    /\ process \in {"starting", "aborted"}
           => nUpdates = 0 /\ \A t \in Tasks : task[t] = IdleTask
    /\ \A t \in Tasks :
           task[t].stage = "Failed" => process = "running" /\ ~crashed

\* C31 witness: a file that is found, read and parsed, with the bot token
\* and the account id set and the API token empty, has aborted the process.
EmptyAPITokenAborted ==
    /\ process = "aborted"
    /\ configFile = [ValidConfigFile EXCEPT !.apiToken = ""]
    /\ nUpdates = 0

\* C32: the entry a confirm deletes is the reference it read, or none: a
\* photo of the same caller stashed between the confirm's read and its
\* delete is not removed by that confirm.
ConfirmDeletesWhatItRead ==
    [][\A t \in Tasks :
         (task[t].pc = "confirm_delete" /\ task'[t].pc # "confirm_delete")
         => pendingUploads[task[t].user] \in {task[t].fileID, NoFile}]_vars

\* the handler in slot t makes its write of the pending store in this step
WritesStore(t) ==
    /\ task[t].pc \in {"photo_store", "confirm_delete", "cancel_delete"}
    /\ task'[t].pc # task[t].pc

\* C33: a caller's entry changes only in the store step of that caller's
\* own photo, confirm or cancel; every other step of every handler (other
\* callers' events, documents, /start, /auth and /unauth, unknown callback
\* data, the pipeline stages) leaves it as it is.
OnlyOwnEventsChangeEntry ==
    [][\A u \in Users :
         pendingUploads'[u] # pendingUploads[u]
         => \E t \in Tasks : task[t].user = u /\ WritesStore(t)]_vars

\* C33 witness: a caller's photo is still pending after the admin removed
\* the caller's authorization and another caller pressed cancel.
EntrySurvivesOthers ==
    \E t \in Tasks :
        /\ pendingUploads[2] # NoFile
        /\ ~IsAuthorized(2)
        /\ task[t].kind = "cancel" /\ task[t].user # 2 /\ task[t].pc = "done"

\* C34: when RemoveAuthorizedUser has returned success for an id, the
\* roster does not hold the id and IsAuthorized(id) is false.
RemovedIsUnauthorized ==
    [][\A t \in Tasks :
         (/\ task[t].kind = "unauth" /\ task[t].pc = "save_write"
          /\ task'[t].resp = <<"Success">>)
         => /\ task[t].text.id \notin Range(AuthorizedUsers')
            /\ ~(task[t].text.id = AdminID
                 \/ InList(AuthorizedUsers', task[t].text.id, 1))]_vars

\* the progress texts of the status message, in the order of the stages
ProgressTexts == <<(<<"Downloading">>), (<<"Validating">>), (<<"Uploading">>)>>

\* how many progress texts a submission has shown by the time it is at pc,
\* or has ended in stage with the failure at failedAt
ProgressShown(pc, stage, failedAt) ==
    CASE pc = "validating" -> 2
      [] pc = "uploading" -> 3
      [] pc = "done" /\ stage = "Done" -> 3
      [] pc = "done" /\ failedAt = "Uploading" -> 3
      [] pc = "done" /\ failedAt = "Validating" -> 2
      [] OTHER -> 1

\* C35: the texts of a status message are the progress texts in stage
\* order up to the stage reached, followed, once the handler has returned,
\* by exactly one terminal text; a running submission only appends to
\* them, and after the terminal text they change no more.
StatusEditedInOrder ==
    [][\A t \in Tasks :
         /\ task'[t].msg
            => LET e == task'[t].edits
                   k == ProgressShown(task'[t].pc, task'[t].stage,
                                      task'[t].failedAt)
               IN IF task'[t].pc = "done"
                  THEN /\ Len(e) = k + 1
                       /\ SubSeq(e, 1, k) = SubSeq(ProgressTexts, 1, k)
                       /\ e[k + 1] \notin Range(ProgressTexts)
                       /\ task'[t].stage = "Done" <=> e[k + 1][1] = "UploadSuccess"
                  ELSE e = SubSeq(ProgressTexts, 1, k)
         /\ (task[t].msg /\ ~TakesUp(t))
            => /\ Len(task'[t].edits) >= Len(task[t].edits)
               /\ SubSeq(task'[t].edits, 1, Len(task[t].edits)) = task[t].edits
               /\ task[t].pc = "done" => task'[t].edits = task[t].edits]_vars

\* C35 witness: one status message went through all three progress texts
\* to the success text, another from the first progress text to a failure.
StatusRanToSuccessAndFailure ==
    \E t, s \in Tasks :
        /\ task[t].msg /\ task[t].stage = "Done" /\ Len(task[t].edits) = 4
        /\ task[t].edits[4][1] = "UploadSuccess"
        /\ task[s].msg /\ task[s].stage = "Failed" /\ Len(task[s].edits) = 2
        /\ task[s].failedAt = "Downloading"

\* C36: every submission that is in Downloading, Validating or Uploading
\* is later in Done or Failed.
InFlightEnds ==
    \A t \in Tasks :
        (task[t].stage \in InFlightStages)
            ~> (task[t].stage \in {"Done", "Failed"})

\* the keys extractMetadata takes from the auxiliary tags, and the tags of
\* an image that are present
TagKeys == {"camera_make", "camera_model", "date_time"}
TagsPresent(img) ==
    (IF img.exif.make # 0 THEN {"camera_make"} ELSE {})
      \cup (IF img.exif.model # 0 THEN {"camera_model"} ELSE {})
      \cup (IF img.exif.dateTime # 0 THEN {"date_time"} ELSE {})

\* C37: what Validate answers does not depend on the auxiliary tags: the
\* error, or the success, is the one the same payload without tags gets.
\* On success the mapping has the format; it has no tag field unless the
\* format is jpeg, and for a jpeg it has, unless it is the fallback
\* mapping, exactly the tag fields that are present.
ExtractionNeverFails ==
    \A t \in Tasks :
        Validated(t)
        => LET img == task[t].image
               bare == [img EXCEPT !.exif = NoExif]
               keys == DOMAIN task[t].result.Metadata
           IN /\ ValidateErrorOf(t) = Validate(bare)
              /\ task[t].result.IsValid <=> Validate(bare) = ""
              /\ task[t].result.IsValid
                     => /\ "format" \in keys
                        /\ img.format # "jpeg" => keys \cap TagKeys = {}
                        /\ (img.format = "jpeg" /\ "width" \notin keys)
                               => keys \cap TagKeys = TagsPresent(img)
                        /\ TagsPresent(img) = {} => keys = {"format"}

\* C37 witness: a jpeg with a camera make and neither model nor timestamp
\* was accepted with the format and the make alone.
AbsentTagsOmitted ==
    \E t \in Tasks :
        /\ Validated(t) /\ task[t].result.IsValid
        /\ task[t].image.format = "jpeg"
        /\ TagsPresent(task[t].image) = {"camera_make"}
        /\ DOMAIN task[t].result.Metadata = {"format", "camera_make"}

\* C38: every key of the fallback mapping of Validate is on the allow-list
\* of the upload client, and the metadata of an upload request built after
\* a successful validation has the image's format, width, height and byte
\* size.
ValidatorFieldsForwarded ==
    \A t \in Tasks :
        task[t].request.built
        => LET keys == DOMAIN task[t].result.Metadata
               sent == DOMAIN task[t].request.metadata
           IN /\ "width" \in keys => keys \subseteq AllowedMetadata
              /\ {"format", "width", "height"} \subseteq sent
              /\ sent \cap {"size", "file_size"} # {}

====
